---- MODULE Spec2Model ----
(***************************************************************************)
(* Model of src/src/main.js: class Game.  A raycast vehicle is driven by    *)
(* five keyboard flags; every animation frame steps the physics world,     *)
(* maps the flags to per-wheel targets (updateVehicle) and copies the      *)
(* chassis and wheel poses to the visuals.                                  *)
(*                                                                         *)
(* Abstractions.  Angles are in tenths of a radian (maxSteerVal 0.5 is 5). *)
(* Time is in ticks, FixedStep ticks being the fixed timestep 1/60 s.  A    *)
(* pose is identified by the number of integration steps that produced it: *)
(* chassisBody = n is the chassis pose committed by the n-th internal step.*)
(***************************************************************************)
EXTENDS Integers, Sequences, FiniteSets

\* ------------------------------------------------------------------ bounds
MaxPose == 2
MaxHeld == 2
MaxDelta == 3

\* --------------------------------------------------------------- constants
engineForce == 1500
maxSteerVal == 5
brakeForce == 100
FixedStep == 2
maxSubSteps == 10
NoPose == -1

VARIABLES
    inputs,        \* this.inputs: the five flags
    held,          \* environment: the physical keys currently down
    wheelInfos,    \* this.vehicle.wheelInfos (index i of the code is i + 1 here)
    wheelVisuals,  \* this.wheelVisuals: the transform copied to each wheel mesh
    chassisBody,   \* this.vehicle.chassisBody: the committed chassis pose
    chassisMesh,   \* this.chassisMesh: the chassis pose copied to the visual
    accumulator,   \* this.world.accumulator, in ticks
    pc,            \* 0: between frames; k > 0: animate is about to run AnimateOrder[k]
    delta,         \* local delta of animate
    substeps,      \* internal steps made by this frame's world.step call
    stepTargets,   \* wheel targets read by this frame's internal steps (<<>>: none)
    readInputs,    \* input state read by the latest updateVehicle call
    calls,         \* calls made so far by the running animate call
    rendered,      \* poses drawn by the latest renderer.render call
    error          \* an uncaught exception was thrown

vars == <<inputs, held, wheelInfos, wheelVisuals, chassisBody, chassisMesh,
          accumulator, pc, delta, substeps, stepTargets, readInputs, calls,
          rendered, error>>

Min(a, b) == IF a < b THEN a ELSE b

\* ---------------------------------------------------------------- keyboard
\* The physical keys of the keyboard, by KeyboardEvent.code; KeyX stands for
\* every key the game does not bind.
PhysKeys == {"KeyW", "ArrowUp", "KeyS", "ArrowDown", "KeyA", "ArrowLeft",
             "KeyD", "ArrowRight", "Space", "KeyX"}

\* e.key of an event of a physical key, with or without Shift / Caps Lock.
EventKey(code, shift) ==
    CASE code = "KeyW" -> IF shift THEN "W" ELSE "w"
      [] code = "KeyS" -> IF shift THEN "S" ELSE "s"
      [] code = "KeyA" -> IF shift THEN "A" ELSE "a"
      [] code = "KeyD" -> IF shift THEN "D" ELSE "d"
      [] code = "KeyX" -> IF shift THEN "X" ELSE "x"
      [] code = "Space" -> " "
      [] OTHER -> code

ToLowerCaseExact(key) == key

\* String.prototype.toLowerCase on the e.key values above.
ToLowerCase(key) ==
    CASE key = "W" -> "w"
      [] key = "S" -> "s"
      [] key = "A" -> "a"
      [] key = "D" -> "d"
      [] key = "X" -> "x"
      [] key = "ArrowUp" -> "arrowup"
      [] key = "ArrowDown" -> "arrowdown"
      [] key = "ArrowLeft" -> "arrowleft"
      [] key = "ArrowRight" -> "arrowright"
      [] OTHER -> key

InitInputs == [forward |-> FALSE, backward |-> FALSE, left |-> FALSE,
               right |-> FALSE, brake |-> FALSE]

\* The switch of a key listener; value is TRUE for keydown, FALSE for keyup.
KeySwitch(inp, key, value) ==
    LET k == ToLowerCase(key) IN
    CASE k \in {"w", "arrowup"} -> [inp EXCEPT !.forward = value]
      [] k \in {"s", "arrowdown"} -> [inp EXCEPT !.backward = value]
      [] k \in {"a", "arrowleft"} -> [inp EXCEPT !.left = value]
      [] k \in {"d", "arrowright"} -> [inp EXCEPT !.right = value]
      [] k = " " -> [inp EXCEPT !.brake = value]
      [] OTHER -> inp

KeyDownHandler(inp, key) == KeySwitch(inp, key, TRUE)

KeyUpHandler(inp, key) == KeySwitch(inp, key, FALSE)

\* ----------------------------------------------------------------- vehicle
\* A wheel as addWheel creates it: the targets are 0 and the world transform
\* is the identity, computed from no chassis pose.
WheelInfo == [steering |-> 0, engineForce |-> 0, brake |-> 0,
              worldTransform |-> [pose |-> NoPose, steering |-> 0]]

AddWheel(ws) == Append(ws, WheelInfo)

InitVehicleThree == AddWheel(AddWheel(AddWheel(<<>>)))

\* initVehicle: front left, front right, rear left, rear right.
InitVehicle == AddWheel(AddWheel(AddWheel(AddWheel(<<>>))))

\* One mesh per wheel, at the origin.
InitWheelVisuals(ws) == [k \in 1..Len(ws) |-> [pose |-> NoPose, steering |-> 0]]

\* The setters work on v = [wheelInfos, threw]: wheelInfos[wheelIndex] of an
\* index out of range is undefined and the assignment throws a TypeError,
\* which ends updateVehicle.
InRange(v, wheelIndex) == wheelIndex >= 0 /\ wheelIndex < Len(v.wheelInfos)

applyEngineForceAdd(v, value, wheelIndex) ==
    IF v.threw THEN v
    ELSE IF InRange(v, wheelIndex)
         THEN [v EXCEPT !.wheelInfos[wheelIndex + 1].engineForce = @ + value]
         ELSE [v EXCEPT !.threw = TRUE]

applyEngineForce(v, value, wheelIndex) ==
    IF v.threw THEN v
    ELSE IF InRange(v, wheelIndex)
         THEN [v EXCEPT !.wheelInfos[wheelIndex + 1].engineForce = value]
         ELSE [v EXCEPT !.threw = TRUE]

setSteeringValue(v, value, wheelIndex) ==
    IF v.threw THEN v
    ELSE IF InRange(v, wheelIndex)
         THEN [v EXCEPT !.wheelInfos[wheelIndex + 1].steering = value]
         ELSE [v EXCEPT !.threw = TRUE]

setBrake(v, value, wheelIndex) ==
    IF v.threw THEN v
    ELSE IF InRange(v, wheelIndex)
         THEN [v EXCEPT !.wheelInfos[wheelIndex + 1].brake = value]
         ELSE [v EXCEPT !.threw = TRUE]

DriveBlend(v, inp) ==
    LET f == (IF inp.forward THEN -engineForce ELSE 0)
             + (IF inp.backward THEN engineForce ELSE 0)
    IN applyEngineForce(applyEngineForce(v, f, 2), f, 3)

\* updateVehicle, "Drive".
Drive(v, inp) ==
    IF inp.forward
    THEN applyEngineForce(applyEngineForce(v, -engineForce, 2), -engineForce, 3)
    ELSE IF inp.backward
         THEN applyEngineForce(applyEngineForce(v, engineForce, 2), engineForce, 3)
         ELSE applyEngineForce(applyEngineForce(v, 0, 2), 0, 3)

SteerRightFirst(v, inp) ==
    IF inp.right
    THEN setSteeringValue(setSteeringValue(v, -maxSteerVal, 0), -maxSteerVal, 1)
    ELSE IF inp.left
         THEN setSteeringValue(setSteeringValue(v, maxSteerVal, 0), maxSteerVal, 1)
         ELSE setSteeringValue(setSteeringValue(v, 0, 0), 0, 1)

\* updateVehicle, "Steer".
Steer(v, inp) ==
    IF inp.left
    THEN setSteeringValue(setSteeringValue(v, maxSteerVal, 0), maxSteerVal, 1)
    ELSE IF inp.right
         THEN setSteeringValue(setSteeringValue(v, -maxSteerVal, 0), -maxSteerVal, 1)
         ELSE setSteeringValue(setSteeringValue(v, 0, 0), 0, 1)

BrakeRearOnly(v, inp) ==
    IF inp.brake
    THEN setBrake(setBrake(v, brakeForce, 2), brakeForce, 3)
    ELSE setBrake(setBrake(setBrake(setBrake(v, 0, 0), 0, 1), 0, 2), 0, 3)

\* updateVehicle, "Brake".
Brake(v, inp) ==
    IF inp.brake
    THEN setBrake(setBrake(setBrake(setBrake(v, brakeForce, 0), brakeForce, 1),
                           brakeForce, 2), brakeForce, 3)
    ELSE setBrake(setBrake(setBrake(setBrake(v, 0, 0), 0, 1), 0, 2), 0, 3)

\* updateVehicle: the result is [wheelInfos, threw].
UpdateVehicle(ws, inp) ==
    Brake(Steer(Drive([wheelInfos |-> ws, threw |-> FALSE], inp), inp), inp)

\* The control targets of all wheels, as the physics step reads them.
Targets(ws) ==
    [k \in 1..Len(ws) |-> [steering |-> ws[k].steering,
                           engineForce |-> ws[k].engineForce,
                           brake |-> ws[k].brake]]

UpdateWheelTransformNone(ws, wheelIndex, pose) == ws

\* vehicle.updateWheelTransform(i): the wheel's world transform from the
\* chassis pose and the wheel's steering.
UpdateWheelTransform(ws, wheelIndex, pose) ==
    [ws EXCEPT ![wheelIndex + 1].worldTransform =
                   [pose |-> pose, steering |-> ws[wheelIndex + 1].steering]]

\* The wheel loop of animate from index k on; the result is
\* [wheelInfos, wheelVisuals].
RECURSIVE SyncWheels(_, _, _, _)
SyncWheels(ws, vis, k, pose) ==
    IF k < Len(ws)
    THEN LET ws2 == UpdateWheelTransform(ws, k, pose)
             t == ws2[k + 1].worldTransform
         IN SyncWheels(ws2, [vis EXCEPT ![k + 1] = t], k + 1, pose)
    ELSE [wheelInfos |-> ws, wheelVisuals |-> vis]

SubStepsOne(acc, d) == {1}

\* world.step(1 / 60, delta): the numbers of internal fixed steps the call can
\* make.  The accumulated time is consumed in steps of the fixed timestep, at
\* most maxSubSteps of them; the loop also ends early, after a step, when the
\* wall clock shows it has run longer than one timestep.
SubSteps(acc, d) ==
    LET full == Min((acc + d) \div FixedStep, maxSubSteps)
    IN IF full = 0 THEN {0} ELSE 1..full

\* What the internal steps leave in the wheels: each step's vehicle update
\* recomputes the wheel transforms from the chassis pose before integrating.
StepWheels(ws, pose, n) ==
    IF n = 0 THEN ws
    ELSE [k \in 1..Len(ws) |->
            [ws[k] EXCEPT !.worldTransform =
                [pose |-> pose + n - 1, steering |-> ws[k].steering]]]

AnimateOrderUpdateFirst == <<"updateVehicle", "step", "sync", "render">>

\* The order of the statements of animate.
AnimateOrder == <<"step", "updateVehicle", "sync", "render">>

\* ------------------------------------------------------------ construction
\* The constructor ends with a call of animate: the first frame runs before
\* any key listener can fire, with a clock delta of 0 (the first getDelta
\* starts the clock) and the initial input state.
FirstFrame ==
    LET n == CHOOSE m \in SubSteps(0, 0) : TRUE
        u == UpdateVehicle(StepWheels(InitVehicle, 0, n), InitInputs)
        vis == InitWheelVisuals(InitVehicle)
    IN IF u.threw
       THEN [wheelInfos |-> u.wheelInfos, wheelVisuals |-> vis, pose |-> n,
             mesh |-> NoPose, threw |-> TRUE,
             rendered |-> [chassis |-> NoPose, wheels |-> vis]]
       ELSE LET s == SyncWheels(u.wheelInfos, vis, 0, n)
            IN [wheelInfos |-> s.wheelInfos, wheelVisuals |-> s.wheelVisuals,
                pose |-> n, mesh |-> n, threw |-> FALSE,
                rendered |-> [chassis |-> n, wheels |-> s.wheelVisuals]]

Init ==
    /\ inputs = InitInputs
    /\ held = {}
    /\ wheelInfos = FirstFrame.wheelInfos
    /\ wheelVisuals = FirstFrame.wheelVisuals
    /\ chassisBody = FirstFrame.pose
    /\ chassisMesh = FirstFrame.mesh
    /\ accumulator = 0
    /\ pc = 0
    /\ delta = 0
    /\ substeps = 0
    /\ stepTargets = <<>>
    /\ readInputs = InitInputs
    /\ calls = <<>>
    /\ rendered = FirstFrame.rendered
    /\ error = FirstFrame.threw

\* ------------------------------------------------------------- key events
\* JavaScript runs a listener to completion: key events are handled between
\* frames only.  A keydown of a key already down is its auto-repeat.
KeyDown(code, shift) ==
    /\ pc = 0
    /\ code \in held \/ Cardinality(held) < MaxHeld
    /\ inputs' = KeyDownHandler(inputs, EventKey(code, shift))
    /\ held' = held \cup {code}
    /\ UNCHANGED <<wheelInfos, wheelVisuals, chassisBody, chassisMesh,
                   accumulator, pc, delta, substeps, stepTargets, readInputs,
                   calls, rendered, error>>

KeyUp(code, shift) ==
    /\ pc = 0
    /\ code \in held
    /\ inputs' = KeyUpHandler(inputs, EventKey(code, shift))
    /\ held' = held \ {code}
    /\ UNCHANGED <<wheelInfos, wheelVisuals, chassisBody, chassisMesh,
                   accumulator, pc, delta, substeps, stepTargets, readInputs,
                   calls, rendered, error>>

\* ----------------------------------------------------------------- animate
At(op) == pc \in 1..Len(AnimateOrder) /\ AnimateOrder[pc] = op

\* The statement after the current one; the locals of animate die with the
\* return of the call.
Last == pc = Len(AnimateOrder)

NextPc == IF Last THEN 0 ELSE pc + 1

Locals(d, n, st, c) ==
    IF Last
    THEN delta' = 0 /\ substeps' = 0 /\ stepTargets' = <<>> /\ calls' = <<>>
    ELSE delta' = d /\ substeps' = n /\ stepTargets' = st /\ calls' = c

\* The animation-frame callback fires (and requests the next frame).
AnimateBegin ==
    /\ pc = 0
    /\ pc' = 1
    /\ UNCHANGED <<inputs, held, wheelInfos, wheelVisuals, chassisBody,
                   chassisMesh, accumulator, delta, substeps, stepTargets,
                   readInputs, calls, rendered, error>>

\* const delta = this.clock.getDelta(); this.world.step(1 / 60, delta).
\* Each internal step reads the wheel targets and integrates the chassis.
WorldStep ==
    /\ At("step")
    /\ \E d \in 0..MaxDelta : \E n \in SubSteps(accumulator, d) :
         /\ chassisBody + n <= MaxPose
         /\ accumulator' = (accumulator + d) % FixedStep
         /\ chassisBody' = chassisBody + n
         /\ wheelInfos' = StepWheels(wheelInfos, chassisBody, n)
         /\ Locals(d, n, IF n > 0 THEN Targets(wheelInfos) ELSE stepTargets,
                   Append(calls, "step"))
    /\ pc' = NextPc
    /\ UNCHANGED <<inputs, held, wheelVisuals, chassisMesh, readInputs,
                   rendered, error>>

\* this.updateVehicle(); an exception ends the frame.
UpdateVehicleStep ==
    /\ At("updateVehicle")
    /\ LET u == UpdateVehicle(wheelInfos, inputs) IN
         /\ wheelInfos' = u.wheelInfos
         /\ readInputs' = inputs
         /\ IF u.threw
            THEN /\ error' = TRUE
                 /\ pc' = 0
                 /\ delta' = 0 /\ substeps' = 0 /\ stepTargets' = <<>>
                 /\ calls' = <<>>
            ELSE /\ error' = error
                 /\ pc' = NextPc
                 /\ Locals(delta, substeps, stepTargets,
                           Append(calls, "updateVehicle"))
    /\ UNCHANGED <<inputs, held, wheelVisuals, chassisBody, chassisMesh,
                   accumulator, rendered>>

\* "Sync visual chassis" and "Sync wheels".
Sync ==
    /\ At("sync")
    /\ chassisMesh' = chassisBody
    /\ LET s == SyncWheels(wheelInfos, wheelVisuals, 0, chassisBody) IN
         /\ wheelInfos' = s.wheelInfos
         /\ wheelVisuals' = s.wheelVisuals
    /\ Locals(delta, substeps, stepTargets, Append(calls, "sync"))
    /\ pc' = NextPc
    /\ UNCHANGED <<inputs, held, chassisBody, accumulator, readInputs,
                   rendered, error>>

\* this.renderer.render(this.scene, this.camera): the meshes are drawn.
Render ==
    /\ At("render")
    /\ rendered' = [chassis |-> chassisMesh, wheels |-> wheelVisuals]
    /\ Locals(delta, substeps, stepTargets, Append(calls, "render"))
    /\ pc' = NextPc
    /\ UNCHANGED <<inputs, held, wheelInfos, wheelVisuals, chassisBody,
                   chassisMesh, accumulator, readInputs, error>>

Next ==
    \/ \E code \in PhysKeys, shift \in BOOLEAN : KeyDown(code, shift)
    \/ \E code \in PhysKeys, shift \in BOOLEAN : KeyUp(code, shift)
    \/ AnimateBegin
    \/ WorldStep
    \/ UpdateVehicleStep
    \/ Sync
    \/ Render

Spec == Init /\ [][Next]_vars

TypeOK ==
    /\ pc \in 0..Len(AnimateOrder)
    /\ accumulator \in 0..(FixedStep - 1)
    /\ chassisBody \in 0..MaxPose
    /\ held \subseteq PhysKeys

\* ================================================================== claims
Called(op) == \E k \in DOMAIN calls : calls[k] = op

CallIndex(op) == IF Called(op) THEN CHOOSE k \in DOMAIN calls : calls[k] = op ELSE 0

CountCalls(op) == Cardinality({k \in DOMAIN calls : calls[k] = op})

\* Wheel i of the code.
Wheel(idx) == wheelInfos[idx + 1]

WheelIndexes == 0..(Len(wheelInfos) - 1)

\* The key bindings as the specification lists them.
Fields == {"forward", "backward", "left", "right", "brake"}

Binding(code) ==
    CASE code \in {"KeyW", "ArrowUp"} -> "forward"
      [] code \in {"KeyS", "ArrowDown"} -> "backward"
      [] code \in {"KeyA", "ArrowLeft"} -> "left"
      [] code \in {"KeyD", "ArrowRight"} -> "right"
      [] code = "Space" -> "brake"
      [] OTHER -> "none"

SetField(inp, f, value) == IF f \in Fields THEN [inp EXCEPT ![f] = value] ELSE inp

\* C1 as stated: with forward and backward both true, updateVehicle leaves
\* engine force 0 on wheels 2 and 3, as with both false.
C1_BothNetZero ==
    (Called("updateVehicle") /\ inputs.forward /\ inputs.backward)
        => (Wheel(2).engineForce = 0 /\ Wheel(3).engineForce = 0)

\* C1 amended: with forward and backward both true, forward has priority:
\* updateVehicle leaves -engineForce on wheels 2 and 3, as with forward alone
\* (no superposition; 0 only when both are false).
C1_ForwardPriority ==
    Called("updateVehicle") =>
        /\ inputs.forward =>
             (Wheel(2).engineForce = -engineForce /\ Wheel(3).engineForce = -engineForce)
        /\ (~inputs.forward /\ ~inputs.backward) =>
             (Wheel(2).engineForce = 0 /\ Wheel(3).engineForce = 0)

C1_Witness ==
    /\ Called("updateVehicle")
    /\ inputs.forward /\ inputs.backward
    /\ Wheel(2).engineForce = -engineForce
    /\ Wheel(3).engineForce = -engineForce

\* C2 as stated: after updateVehicle the steering of wheels 0 and 1 is
\* +maxSteerVal with only left, -maxSteerVal with only right, 0 with neither
\* or both.
C2_BothSteerZero ==
    Called("updateVehicle") =>
        \A w \in {0, 1} :
            Wheel(w).steering =
                IF inputs.left /\ ~inputs.right THEN maxSteerVal
                ELSE IF inputs.right /\ ~inputs.left THEN -maxSteerVal
                ELSE 0

\* C2 amended: after updateVehicle the steering of wheels 0 and 1 is
\* +maxSteerVal whenever left is true (also when right is true as well),
\* -maxSteerVal when only right is true, and 0 when neither is true.
C2_LeftPriority ==
    Called("updateVehicle") =>
        \A w \in {0, 1} :
            Wheel(w).steering =
                IF inputs.left THEN maxSteerVal
                ELSE IF inputs.right THEN -maxSteerVal
                ELSE 0

C2_Witness ==
    /\ Called("updateVehicle")
    /\ inputs.left /\ inputs.right
    /\ Wheel(0).steering = maxSteerVal
    /\ Wheel(1).steering = maxSteerVal

\* C3 as stated: in a frame updateVehicle runs before world.step, so the
\* targets the frame's internal steps read are those derived from the input
\* state of the same frame.
C3_UpdateBeforeStep ==
    Called("step") =>
        /\ Called("updateVehicle")
        /\ CallIndex("updateVehicle") < CallIndex("step")
        /\ substeps > 0 =>
             stepTargets = Targets(UpdateVehicle(wheelInfos, inputs).wheelInfos)

\* C3 amended: in every frame world.step runs first and updateVehicle runs
\* exactly once after it, so the targets the frame's internal steps read are
\* those the previous frame's updateVehicle derived from the input state it
\* read; the input state of the current frame takes effect one frame later.
C3_StepThenUpdate ==
    /\ pc > 0 => calls = SubSeq(<<"step", "updateVehicle", "sync">>, 1, pc - 1)
    /\ (Called("step") /\ ~Called("updateVehicle") /\ substeps > 0) =>
          stepTargets = Targets(UpdateVehicle(InitVehicle, readInputs).wheelInfos)

C3_Witness ==
    /\ Called("step") /\ ~Called("updateVehicle")
    /\ substeps > 0
    /\ readInputs # inputs
    /\ stepTargets = Targets(UpdateVehicle(InitVehicle, readInputs).wheelInfos)
    /\ stepTargets # Targets(UpdateVehicle(InitVehicle, inputs).wheelInfos)

\* C4: after updateVehicle the brake of each of the 4 wheels is brakeForce
\* when the brake input is true and 0 when it is false, whatever the other
\* four flags are.
C4_BrakeAllWheels ==
    Called("updateVehicle") =>
        /\ WheelIndexes = 0..3
        /\ \A w \in 0..3 :
             Wheel(w).brake = IF inputs.brake THEN brakeForce ELSE 0

C4_Witness ==
    /\ Called("updateVehicle")
    /\ inputs.brake /\ inputs.forward
    /\ \A w \in 0..3 : Wheel(w).brake = brakeForce

C6_FreshTransforms ==
    /\ Called("sync") =>
         /\ CallIndex("step") < CallIndex("sync")
         /\ chassisMesh = chassisBody
         /\ \A w \in WheelIndexes :
              /\ Wheel(w).worldTransform =
                     [pose |-> chassisBody, steering |-> Wheel(w).steering]
              /\ wheelVisuals[w + 1] = Wheel(w).worldTransform
    /\ pc = 0 =>
         /\ rendered.chassis = chassisBody
         /\ \A w \in WheelIndexes : rendered.wheels[w + 1].pose = chassisBody

C6_Witness ==
    /\ Called("sync")
    /\ substeps > 0
    /\ chassisMesh = chassisBody
    /\ \A w \in 0..3 : wheelVisuals[w + 1].pose = chassisBody

\* C7: the targets updateVehicle leaves depend only on the input state it
\* read: whatever the earlier inputs and targets were, they equal the targets
\* the call leaves in a run without history (a freshly built vehicle) that
\* reads the same input state.
C7_HistoryIndependent ==
    Called("updateVehicle") =>
        Targets(wheelInfos) = Targets(UpdateVehicle(InitVehicle, inputs).wheelInfos)

C7_Witness ==
    /\ Called("updateVehicle")
    /\ stepTargets # <<>>
    /\ stepTargets # Targets(InitVehicle)
    /\ stepTargets # Targets(wheelInfos)
    /\ Targets(wheelInfos) # Targets(InitVehicle)

\* C8: a keydown of a bound key, in either case, sets exactly the field it is
\* bound to and a keyup clears exactly that field; an event of an unbound key
\* changes no field.
C8_KeySetsItsField ==
    [][\A code \in PhysKeys, shift \in BOOLEAN :
          /\ KeyDown(code, shift) => inputs' = SetField(inputs, Binding(code), TRUE)
          /\ KeyUp(code, shift) => inputs' = SetField(inputs, Binding(code), FALSE)]_vars

C8_Witness ==
    /\ held = {"ArrowLeft", "KeyX"}
    /\ inputs = [InitInputs EXCEPT !.left = TRUE]

\* C9: in every reachable state steering is within [-maxSteerVal, maxSteerVal]
\* on wheels 0 and 1 and 0 on wheels 2 and 3, engineForce is -engineForce, 0
\* or engineForce on wheels 2 and 3 and 0 on wheels 0 and 1, brake is 0 or
\* brakeForce on all wheels, and no wheel index used is out of range (there
\* are 4 wheels and no setter has thrown).
C9_TargetDomains ==
    /\ Len(wheelInfos) = 4
    /\ ~error
    /\ \A w \in {0, 1} :
         /\ Wheel(w).steering >= -maxSteerVal
         /\ Wheel(w).steering <= maxSteerVal
         /\ Wheel(w).engineForce = 0
    /\ \A w \in {2, 3} :
         /\ Wheel(w).steering = 0
         /\ Wheel(w).engineForce \in {-engineForce, 0, engineForce}
    /\ \A w \in 0..3 : Wheel(w).brake \in {0, brakeForce}

C9_Witness ==
    /\ Wheel(0).steering = -maxSteerVal
    /\ Wheel(3).engineForce = engineForce
    /\ Wheel(1).brake = 0

\* C10: each input field is true exactly when at least one key bound to it is
\* held.
C10_FlagIffKeyHeld ==
    \A f \in Fields : inputs[f] <=> (\E code \in held : Binding(code) = f)

====
